---- MODULE Spec2Model ----
(***************************************************************************)
(* Model of the card validation backend (src/backend/index.js, the full    *)
(* variant at lines 91-315): preProcess, validateCards, the POST /cards    *)
(* and GET /history handlers, and saveHistory with its mutex.              *)
(*                                                                         *)
(* JavaScript values are records [type, str, num, kind]:                   *)
(*   a string is its sequence of characters (str);                         *)
(*   a number is an integer (kind "int", value num), the non-integer       *)
(*   num + 1/2 (kind "frac") or NaN (kind "NaN");                          *)
(*   null and booleans carry their tag only.                               *)
(***************************************************************************)
EXTENDS Integers, Sequences, FiniteSets, TLC

VARIABLES
    cardHistory,   \* index.js:123, the in-memory history log
    locked,        \* historyMutex: TRUE while some saveHistory holds it
    running,       \* saveHistory calls past acquire(), continuation not yet run
    waiters,       \* saveHistory calls queued inside historyMutex.acquire()
    uuidClock,     \* number of ids uuidv1() has handed out
    response,      \* the last HTTP response sent
    request,       \* the request that response answers
    posted,        \* number of POST /cards requests handled
    accepted,      \* number of batches that passed the size gate
    validatedCards,\* the validatedCards of the last POST /cards handler run
    raw,           \* card pipeline: the raw card under test
    pc,            \* card pipeline: position
    cleaned,       \* card pipeline: preProcess output for raw
    validated,     \* card pipeline: validateCards output for cleaned
    again,         \* card pipeline: both steps run on the fed-back record
    pair,          \* shape pipeline: the (letter, digit) pair under test
    byShape        \* shape pipeline: preProcess output per encoding

serverVars == <<cardHistory, locked, running, waiters, uuidClock, response,
                request, posted, accepted, validatedCards>>
cardVars == <<raw, pc, cleaned, validated, again>>
shapeVars == <<pair, byShape>>
vars == <<cardHistory, locked, running, waiters, uuidClock, response,
          request, posted, accepted, validatedCards, raw, pc, cleaned, validated, again, pair,
          byShape>>

----------------------------------------------------------------------------
(* JavaScript values *)

JsStr(s) == [type |-> "string", str |-> s, num |-> 0, kind |-> "none"]
JsInt(n) == [type |-> "number", str |-> <<>>, num |-> n, kind |-> "int"]
JsFrac(n) == [type |-> "number", str |-> <<>>, num |-> n, kind |-> "frac"]
JsNaN == [type |-> "number", str |-> <<>>, num |-> 0, kind |-> "NaN"]
JsNull == [type |-> "null", str |-> <<>>, num |-> 0, kind |-> "none"]
JsTrue == [type |-> "boolean", str |-> <<>>, num |-> 1, kind |-> "none"]

\* typeof v
TypeOf(v) == IF v.type = "null" THEN "object" ELSE v.type

\* !v
Falsy(v) ==
    \/ v.type = "null"
    \/ v.type = "string" /\ v.str = <<>>
    \/ v.type = "number" /\ (v.kind = "NaN" \/ (v.kind = "int" /\ v.num = 0))
    \/ v.type = "boolean" /\ v.num = 0

\* v < k and v > k for a number v and an integer k (false for NaN)
NumLess(v, k) == v.kind # "NaN" /\ v.num < k
NumGreater(v, k) ==
    \/ v.kind = "int" /\ v.num > k
    \/ v.kind = "frac" /\ v.num >= k

\* Number.isInteger(v)
IsInteger(v) == v.type = "number" /\ v.kind = "int"

----------------------------------------------------------------------------
(* Strings as character sequences *)

DigitChars == <<"0", "1", "2", "3", "4", "5", "6", "7", "8", "9">>
UpperChars == <<"A", "B", "C", "D", "E", "F", "G", "H", "I", "J", "K", "L", "M",
                "N", "O", "P", "Q", "R", "S", "T", "U", "V", "W", "X", "Y", "Z">>
LowerChars == <<"a", "b", "c", "d", "e", "f", "g", "h", "i", "j", "k", "l", "m",
                "n", "o", "p", "q", "r", "s", "t", "u", "v", "w", "x", "y", "z">>

IndexIn(seq, c) == CHOOSE i \in 1..Len(seq) : seq[i] = c
Occurs(seq, c) == \E i \in 1..Len(seq) : seq[i] = c

IsDigit(c) == Occurs(DigitChars, c)
DigitVal(c) == IndexIn(DigitChars, c) - 1
IsSpace(c) == c = " "

\* UTF-16 code unit of a character
CharCode(c) ==
    IF Occurs(DigitChars, c) THEN 47 + IndexIn(DigitChars, c)
    ELSE IF Occurs(UpperChars, c) THEN 64 + IndexIn(UpperChars, c)
    ELSE IF Occurs(LowerChars, c) THEN 96 + IndexIn(LowerChars, c)
    ELSE CASE c = " " -> 32
           [] c = "+" -> 43
           [] c = "," -> 44
           [] c = "-" -> 45
           [] c = "." -> 46
           [] c = "@" -> 64
           [] c = "[" -> 91

\* a < b on strings: lexicographic on code units
RECURSIVE StrLess(_, _)
StrLess(a, b) ==
    IF b = <<>> THEN FALSE
    ELSE IF a = <<>> THEN TRUE
    ELSE IF CharCode(Head(a)) # CharCode(Head(b))
         THEN CharCode(Head(a)) < CharCode(Head(b))
    ELSE StrLess(Tail(a), Tail(b))

RECURSIVE TrimLeft(_)
TrimLeft(s) ==
    IF s # <<>> /\ IsSpace(Head(s)) THEN TrimLeft(Tail(s)) ELSE s

RECURSIVE TrimRight(_)
TrimRight(s) ==
    IF s # <<>> /\ IsSpace(s[Len(s)]) THEN TrimRight(SubSeq(s, 1, Len(s) - 1)) ELSE s

\* s.trim()
Trim(s) == TrimRight(TrimLeft(s))

RECURSIVE SplitAcc(_, _)
SplitAcc(s, cur) ==
    IF s = <<>> THEN <<cur>>
    ELSE IF Head(s) = "," THEN <<cur>> \o SplitAcc(Tail(s), <<>>)
    ELSE SplitAcc(Tail(s), Append(cur, Head(s)))

\* s.split(',')
Split(s) == SplitAcc(s, <<>>)

AllDigits(s) == \A i \in 1..Len(s) : IsDigit(s[i])

\* StrUnsignedDecimalLiteral without exponent: digits, digits '.', digits '.'
\* digits, '.' digits
UnsignedDecimal(s) ==
    \E k \in 0..Len(s) :
        LET ip == SubSeq(s, 1, k)
            rest == SubSeq(s, k + 1, Len(s))
        IN  /\ AllDigits(ip)
            /\ IF rest = <<>> THEN k > 0
               ELSE /\ Head(rest) = "."
                    /\ AllDigits(Tail(rest))
                    /\ (k > 0 \/ Len(rest) > 1)

SignedDecimal(s) ==
    IF s # <<>> /\ Head(s) \in {"+", "-"} THEN UnsignedDecimal(Tail(s))
    ELSE UnsignedDecimal(s)

\* isNaN(s) for a string s: Number(s) is NaN. Number("") and Number("  ")
\* are 0. The characters of the model hold no exponent, radix prefix or
\* "Infinity".
IsNaNStr(s) ==
    LET t == Trim(s) IN t # <<>> /\ ~SignedDecimal(t)

RECURSIVE DigitPrefix(_)
DigitPrefix(s) ==
    IF s # <<>> /\ IsDigit(Head(s)) THEN <<Head(s)>> \o DigitPrefix(Tail(s))
    ELSE <<>>

RECURSIVE DecimalValue(_)
DecimalValue(ds) ==
    IF ds = <<>> THEN 0
    ELSE 10 * DecimalValue(SubSeq(ds, 1, Len(ds) - 1)) + DigitVal(ds[Len(ds)])

\* parseInt(s, 10)
ParseInt(s) ==
    LET t == TrimLeft(s)
        signed == t # <<>> /\ Head(t) \in {"+", "-"}
        neg == t # <<>> /\ Head(t) = "-"
        ds == DigitPrefix(IF signed THEN Tail(t) ELSE t)
    IN  IF ds = <<>> THEN JsNaN
        ELSE JsInt(IF neg THEN 0 - DecimalValue(ds) ELSE DecimalValue(ds))

----------------------------------------------------------------------------
(* Raw cards: the runtime shapes preProcess dispatches on.  An object is    *)
(* given by Object.values(card), its values in property order; the keys    *)
(* are never read.                                                         *)

RawString(s) == [shape |-> "string", str |-> s, items |-> <<>>]
RawArray(items) == [shape |-> "array", str |-> <<>>, items |-> items]
RawObject(values) == [shape |-> "object", str |-> <<>>, items |-> values]
RawOther(v) == [shape |-> "other", str |-> <<>>, items |-> <<v>>]

MsgString == "Invalid format for input string."
MsgArray == "Invalid format for input array."
MsgObject == "Invalid format for input object."
MsgUnknown == "Unknown input type and format."
MsgLetter == "Card must have a single Alphabet A-Z."
MsgNumber == "Number must be between 0-9."
MsgPair == "Card \"D\" must have the number 3."

ParseMessages == {MsgString, MsgArray, MsgObject, MsgUnknown}
RuleMessages == {MsgLetter, MsgNumber, MsgPair}

\* mutant of ScanParts: the strict order of the earlier variants, first part
\* the letter and second part the number
ScanPartsPositional(parts, alphabet, number) ==
    [alphabet |-> IF parts[1] # <<>> THEN JsStr(parts[1]) ELSE alphabet,
     number |-> IF Len(parts) >= 2 /\ parts[2] # <<>> /\ ~IsNaNStr(parts[2])
                THEN ParseInt(parts[2]) ELSE number]

\* parts.forEach(part => ...) of the string branch, with the two locals
RECURSIVE ScanParts(_, _, _)
ScanParts(parts, alphabet, number) ==
    IF parts = <<>> THEN [alphabet |-> alphabet, number |-> number]
    ELSE LET part == Head(parts) IN
         IF Falsy(alphabet) /\ IsNaNStr(part)
         THEN ScanParts(Tail(parts), JsStr(part), number)
         ELSE IF number = JsNull /\ ~IsNaNStr(part)
         THEN ScanParts(Tail(parts), alphabet, ParseInt(part))
         ELSE ScanParts(Tail(parts), alphabet, number)

\* mutant of ScanItems: a NaN is not taken as the number
RECURSIVE ScanItemsSkipNaN(_, _, _)
ScanItemsSkipNaN(items, alphabet, number) ==
    IF items = <<>> THEN [alphabet |-> alphabet, number |-> number]
    ELSE LET item == Head(items) IN
         IF Falsy(alphabet) /\ TypeOf(item) = "string"
         THEN ScanItemsSkipNaN(Tail(items), item, number)
         ELSE IF number = JsNull /\ TypeOf(item) = "number" /\ item.kind # "NaN"
         THEN ScanItemsSkipNaN(Tail(items), alphabet, item)
         ELSE ScanItemsSkipNaN(Tail(items), alphabet, number)

\* card.forEach(item => ...) and Object.values(card).forEach(value => ...)
RECURSIVE ScanItems(_, _, _)
ScanItems(items, alphabet, number) ==
    IF items = <<>> THEN [alphabet |-> alphabet, number |-> number]
    ELSE LET item == Head(items) IN
         IF Falsy(alphabet) /\ TypeOf(item) = "string"
         THEN ScanItems(Tail(items), item, number)
         ELSE IF number = JsNull /\ TypeOf(item) = "number"
         THEN ScanItems(Tail(items), alphabet, item)
         ELSE ScanItems(Tail(items), alphabet, number)

\* the test `!alphabet || number === null` and the two returns it selects
Extracted(id, found, msg) ==
    IF Falsy(found.alphabet) \/ found.number = JsNull
    THEN [id |-> id, alphabet |-> JsNull, number |-> JsNull, errors |-> <<msg>>]
    ELSE [id |-> id, alphabet |-> found.alphabet, number |-> found.number,
          errors |-> <<>>]

TrimParts(parts) == [i \in 1..Len(parts) |-> Trim(parts[i])]

PreProcess(c, id) ==
    IF c.shape = "string"
    THEN Extracted(id, ScanParts(TrimParts(Split(c.str)), JsNull, JsNull), MsgString)
    ELSE IF c.shape = "array"
    THEN Extracted(id, ScanItems(c.items, JsNull, JsNull), MsgArray)
    ELSE IF c.shape = "object"
    THEN Extracted(id, ScanItems(c.items, JsNull, JsNull), MsgObject)
    ELSE [id |-> id, alphabet |-> JsNull, number |-> JsNull, errors |-> <<MsgUnknown>>]

(* A processed batch is [cards, heap]: every errors array is an object of  *)
(* its own on the heap and the card holds the reference, so that the       *)
(* in-place card.errors.push(...) of validateCards and the shallow copy    *)
(* { ...card } act as they do in JavaScript.                                *)

\* cards.map((card, index) => preProcess(card, index)); each call's array
\* literal is a fresh object, here the one at heap position index + 1
CleanCards(cards) ==
    [cards |-> [i \in 1..Len(cards) |->
                    [PreProcess(cards[i], i - 1) EXCEPT !.errors = i]],
     heap |-> [i \in 1..Len(cards) |-> PreProcess(cards[i], i - 1).errors]]

\* mutant of LetterInvalid: the length test is missing
LetterInvalidNoLength(c) ==
    \/ c.alphabet = JsNull
    \/ TypeOf(c.alphabet) # "string"
    \/ StrLess(c.alphabet.str, <<"A">>)
    \/ StrLess(<<"Z">>, c.alphabet.str)

LetterInvalid(c) ==
    \/ c.alphabet = JsNull
    \/ TypeOf(c.alphabet) # "string"
    \/ Len(c.alphabet.str) # 1
    \/ StrLess(c.alphabet.str, <<"A">>)
    \/ StrLess(<<"Z">>, c.alphabet.str)

NumberInvalid(c) ==
    \/ c.number = JsNull
    \/ TypeOf(c.number) # "number"
    \/ NumLess(c.number, 0)
    \/ NumGreater(c.number, 9)
    \/ ~IsInteger(c.number)

PairInvalid(c) == c.alphabet = JsStr(<<"D">>) /\ c.number # JsInt(3)

\* card.errors.push(msg) when cond holds
PushIf(heap, ref, cond, msg) ==
    IF cond THEN [heap EXCEPT ![ref] = Append(@, msg)] ELSE heap

\* mutant of ValidateCard: cards with an input error are not skipped
ValidateCardNoSkip(c, heap) ==
    LET h1 == PushIf(heap, c.errors, LetterInvalid(c), MsgLetter)
        h2 == PushIf(h1, c.errors, NumberInvalid(c), MsgNumber)
    IN  PushIf(h2, c.errors, PairInvalid(c), MsgPair)

\* the heap after the callback of validateCards ran on card c.  preProcess
\* always sets errors, so `if (!card.errors) card.errors = []` never assigns.
ValidateCard(c, heap) ==
    IF c.alphabet = JsNull /\ c.number = JsNull THEN heap
    ELSE LET h1 == PushIf(heap, c.errors, LetterInvalid(c), MsgLetter)
             h2 == PushIf(h1, c.errors, NumberInvalid(c), MsgNumber)
         IN  PushIf(h2, c.errors, PairInvalid(c), MsgPair)

\* mutant of ValidateFrom: the first card with an input error ends the loop
RECURSIVE ValidateFromAbort(_, _, _)
ValidateFromAbort(cards, i, heap) ==
    IF i > Len(cards) THEN heap
    ELSE IF cards[i].alphabet = JsNull /\ cards[i].number = JsNull THEN heap
    ELSE ValidateFromAbort(cards, i + 1, ValidateCard(cards[i], heap))

RECURSIVE ValidateFrom(_, _, _)
ValidateFrom(cards, i, heap) ==
    IF i > Len(cards) THEN heap
    ELSE ValidateFrom(cards, i + 1, ValidateCard(cards[i], heap))

\* validateCards(cards): the returned cards are the skipped cards themselves
\* or shallow copies, which share the errors array of the original
ValidateCards(b) == [cards |-> b.cards, heap |-> ValidateFrom(b.cards, 1, b.heap)]

\* a card as serialised (res.json) or as stored with its errors array
Deref(c, heap) == [c EXCEPT !.errors = heap[c.errors]]
Serialised(b) == [i \in 1..Len(b.cards) |-> Deref(b.cards[i], b.heap)]

----------------------------------------------------------------------------
(* Inputs *)

MaxStrLen == 4
MaxItems == 2
MaxPairDigit == 11
MaxRequests == 2
MaxBatchLen == 21
DeckSize == 20

StrChars == {"A", "D", "c", "3", "4", ",", " ", "-", "."}
StringsOfLen(k) == [1..k -> StrChars]

ItemStrings == {<<"A">>, <<"D">>, <<"Z">>, <<"c">>, <<"@">>, <<"[">>, <<>>,
                <<"A", "D">>, <<"3">>}
ItemNumbers == {JsInt(0), JsInt(3), JsInt(4), JsInt(9), JsInt(10),
                JsInt(0 - 1), JsFrac(3), JsFrac(9)}
Items == {JsStr(s) : s \in ItemStrings} \cup ItemNumbers \cup {JsNull, JsTrue}
ItemListsOfLen(k) == [1..k -> Items]

\* the raw cards under test: every string over StrChars up to MaxStrLen
\* characters, every array and every record of up to MaxItems items, and
\* values of the other runtime types
IsRawCard(c) ==
    \/ \E k \in 0..MaxStrLen : \E str \in StringsOfLen(k) : c = RawString(str)
    \/ \E k \in 0..MaxItems : \E l \in ItemListsOfLen(k) :
            c \in {RawArray(l), RawObject(l)}
    \/ c \in {RawOther(JsNull), RawOther(JsInt(5)), RawOther(JsTrue)}

NoBatch == [cards |-> <<>>, heap |-> <<>>]
NoResponse == [status |-> 0, body |-> [pending |-> TRUE]]
NoRequest == [method |-> "none", ctype |-> "none", wellFormed |-> TRUE,
              isArray |-> FALSE, cards |-> <<>>]
NoPair == [letter |-> <<>>, digit |-> 0]

ServerInit ==
    /\ cardHistory = <<>>
    /\ locked = FALSE
    /\ running = <<>>
    /\ waiters = <<>>
    /\ uuidClock = 0
    /\ response = NoResponse
    /\ request = NoRequest
    /\ posted = 0
    /\ accepted = 0
    /\ validatedCards = <<>>

CardIdle ==
    /\ raw = RawOther(JsNull)
    /\ pc = "idle"
    /\ cleaned = NoBatch
    /\ validated = NoBatch
    /\ again = NoBatch

ShapeIdle ==
    /\ pair = NoPair
    /\ byShape = <<>>

----------------------------------------------------------------------------
(* The card pipeline: preProcess and validateCards on one raw card, then   *)
(* both again on the record { letter, digit } of the result.               *)

\* the validated card's { letter, digit } as a loose record
LooseRecord(c) == RawObject(<<c.alphabet, c.number>>)

Normalize ==
    /\ pc = "raw"
    /\ cleaned' = CleanCards(<<raw>>)
    /\ pc' = "cleaned"
    /\ UNCHANGED <<raw, validated, again>>
    /\ UNCHANGED <<serverVars, shapeVars>>

Validate ==
    /\ pc = "cleaned"
    /\ validated' = ValidateCards(cleaned)
    /\ pc' = "validated"
    /\ UNCHANGED <<raw, cleaned, again>>
    /\ UNCHANGED <<serverVars, shapeVars>>

FeedBack ==
    /\ pc = "validated"
    /\ again' = ValidateCards(CleanCards(<<LooseRecord(validated.cards[1])>>))
    /\ pc' = "revalidated"
    /\ UNCHANGED <<raw, cleaned, validated>>
    /\ UNCHANGED <<serverVars, shapeVars>>

CardInit ==
    /\ IsRawCard(raw)
    /\ pc = "raw"
    /\ cleaned = NoBatch
    /\ validated = NoBatch
    /\ again = NoBatch
    /\ ServerInit
    /\ ShapeIdle

CardNext == Normalize \/ Validate \/ FeedBack

CardSpec == CardInit /\ [][CardNext]_vars

\* the single card of a one-card batch, as serialised
View(b) == Deref(b.cards[1], b.heap)

----------------------------------------------------------------------------
(* Properties of the card pipeline (CardSpec) *)

UpperLetters == {<<UpperChars[i]>> : i \in 1..Len(UpperChars)}
IsSingleUpper(v) == v.type = "string" /\ v.str \in UpperLetters
IsDigit09(v) == v.type = "number" /\ v.kind = "int" /\ v.num \in 0..9
ParseFailed(c) == c.alphabet = JsNull /\ c.number = JsNull
ErrorSet(c) == {c.errors[i] : i \in 1..Len(c.errors)}

\* the messages of the rules a card violates, in the order letter, digit,
\* pairing
ViolatedRules(c) ==
    (IF IsSingleUpper(c.alphabet) THEN <<>> ELSE <<MsgLetter>>)
        \o (IF IsDigit09(c.number) THEN <<>> ELSE <<MsgNumber>>)
        \o (IF c.alphabet = JsStr(<<"D">>) /\ c.number # JsInt(3)
            THEN <<MsgPair>> ELSE <<>>)

\* C3: a card that is not a total parse failure leaves validateCards with
\* exactly the messages of the rules it violates, each once, in the order
\* letter, digit, pairing.
C3_ErrorsAreViolatedRules ==
    (pc \in {"validated", "revalidated"} /\ ~ParseFailed(View(cleaned)))
        => View(validated).errors = ViolatedRules(View(validated))

\* the letter and the digit message on one card, from a delimited string
C3_Witness ==
    /\ pc = "validated"
    /\ raw.shape = "string"
    /\ View(validated).errors = <<MsgLetter, MsgNumber>>

\* C4: a card whose normalization failed leaves validateCards with exactly
\* the one parse error preProcess gave it, and no rule message.
C4_ParseFailureShortCircuit ==
    (pc \in {"validated", "revalidated"} /\ ParseFailed(View(cleaned)))
        => /\ View(validated).errors = View(cleaned).errors
           /\ Len(View(validated).errors) = 1
           /\ View(validated).errors[1] \in ParseMessages
           /\ ErrorSet(View(validated)) \cap RuleMessages = {}

C4_Witness ==
    /\ pc = "validated"
    /\ raw = RawString(<<"A", "D", ",", "A">>)
    /\ View(validated).errors = <<MsgString>>

\* C5 as claimed: the second run, on the record { letter, digit } of the first
\* run's result, yields the error set of the first run, parse failures
\* included.
C5_IdempotentAlways ==
    pc = "revalidated" => ErrorSet(View(again)) = ErrorSet(View(validated))

\* C5 amended: the second run yields the error set of the first run unless the
\* first run ended in a parse error; then the second run ends in exactly the
\* record-shaped parse error, which is the first run's error only for a card
\* that was a record.
C5_IdempotentUnlessParseError ==
    pc = "revalidated" =>
        IF ParseFailed(View(validated))
        THEN /\ View(again).errors = <<MsgObject>>
             /\ ParseFailed(View(again))
             /\ (ErrorSet(View(again)) = ErrorSet(View(validated))
                    <=> raw.shape = "object")
        ELSE /\ ErrorSet(View(again)) = ErrorSet(View(validated))
             /\ View(again).alphabet = View(validated).alphabet
             /\ View(again).number = View(validated).number

C5_Witness ==
    /\ pc = "revalidated"
    /\ raw = RawString(<<"D", ",", "4">>)
    /\ View(again).errors = <<MsgPair>>

\* C6 as claimed: preProcess returns (letter, integer digit, no errors) or
\* (null, null, exactly one parse error); a delimited string that lacks the
\* letter part or the numeric part returns the second form.
C6_TwoForms ==
    pc # "raw" =>
        LET c == View(cleaned) IN
            \/ /\ c.alphabet.type = "string"
               /\ IsInteger(c.number)
               /\ c.errors = <<>>
            \/ /\ ParseFailed(c)
               /\ Len(c.errors) = 1
               /\ c.errors[1] \in ParseMessages

----------------------------------------------------------------------------
(* The shape pipeline: one (letter, digit) pair written in each of the     *)
(* encodings of the client's sample deck, and preProcess on each.          *)

RECURSIVE NatToString(_)
NatToString(n) ==
    IF n < 10 THEN <<DigitChars[n + 1]>>
    ELSE Append(NatToString(n \div 10), DigitChars[(n % 10) + 1])

\* the decimal text of an integer, as written in "B,2"
NumberToString(d) ==
    IF d < 0 THEN <<"-">> \o NatToString(0 - d) ELSE NatToString(d)

ShapeNames == {"L,d", "d,L", "[L,d]", "[d,L]", "{L,d}", "{d,L}"}

Encode(shape, L, d) ==
    CASE shape = "L,d" -> RawString(L \o <<",">> \o NumberToString(d))
      [] shape = "d,L" -> RawString(NumberToString(d) \o <<",">> \o L)
      [] shape = "[L,d]" -> RawArray(<<JsStr(L), JsInt(d)>>)
      [] shape = "[d,L]" -> RawArray(<<JsInt(d), JsStr(L)>>)
      [] shape = "{L,d}" -> RawObject(<<JsStr(L), JsInt(d)>>)
      [] shape = "{d,L}" -> RawObject(<<JsInt(d), JsStr(L)>>)

PairLetters ==
    UpperLetters \cup {<<LowerChars[i]>> : i \in 1..Len(LowerChars)}
PairDigits == (0 - 2)..MaxPairDigit

EncodeAll ==
    /\ byShape = <<>>
    /\ byShape' = [s \in ShapeNames |-> PreProcess(Encode(s, pair.letter, pair.digit), 0)]
    /\ UNCHANGED pair
    /\ UNCHANGED <<serverVars, cardVars>>

ShapeInit ==
    /\ pair \in [letter : PairLetters, digit : PairDigits]
    /\ byShape = <<>>
    /\ ServerInit
    /\ CardIdle

ShapeNext == EncodeAll

ShapeSpec == ShapeInit /\ [][ShapeNext]_vars

\* C2: preProcess returns the same {alphabet, number} for a (letter, digit)
\* pair whatever the shape it is given in and the order of its fields.
C2_ShapeIndependent ==
    byShape # <<>> =>
        \A s, t \in ShapeNames :
            /\ byShape[s].alphabet = byShape[t].alphabet
            /\ byShape[s].number = byShape[t].number
            /\ byShape[s].errors = byShape[t].errors

C2_Witness ==
    /\ byShape # <<>>
    /\ pair = [letter |-> <<"D">>, digit |-> 3]
    /\ \A s \in ShapeNames :
        /\ byShape[s].alphabet = JsStr(<<"D">>)
        /\ byShape[s].number = JsInt(3)

----------------------------------------------------------------------------
(* The server: POST /cards, GET /history and saveHistory.                  *)
(*                                                                         *)
(* A handler runs to completion.  saveHistory runs inside the handler up   *)
(* to `await historyMutex.acquire()`; what follows the await is a          *)
(* continuation that runs later, as a step of its own, once the mutex is   *)
(* handed to it.  The model lets any number of handlers run between a      *)
(* call of saveHistory and its continuation; Node's schedule, which runs   *)
(* the continuation before the next handler, is one of these               *)
(* interleavings.                                                          *)

MsgUnsupported == "Unsupported input type."
MsgBadJson == "Invalid JSON format in text input."
MsgNotArray == "Input must be an array of cards"
MsgDeckSize == "The deck must have 20 cards."
MsgInvalid == "Invalid card data."
MsgValid == "Deck is valid"

\* the n-th id handed out by uuidv1(): ids of distinct calls differ
Uuid(n) == n

\* mutant of WrongSize: only short batches are rejected
WrongSizeBelow(cards) == Len(cards) < DeckSize

\* cards.length !== 20
WrongSize(cards) == Len(cards) # DeckSize

\* mutant of InvalidCards: a card with a single error is not reported
InvalidCardsSeveral(cards) == SelectSeq(cards, LAMBDA c : Len(c.errors) > 1)

\* validatedCards.filter(card => card.errors && card.errors.length > 0)
InvalidCards(cards) == SelectSeq(cards, LAMBDA c : Len(c.errors) > 0)

\* mutant of HistoryEntries: only the cards with errors are pushed
HistoryEntriesFailing(deckId, scannedCards) ==
    LET failing == SelectSeq(scannedCards, LAMBDA c : Len(c.errors) > 0)
    IN  [i \in 1..Len(failing) |->
            [deckId |-> deckId,
             cardId |-> failing[i].id,
             alphabet |-> failing[i].alphabet,
             number |-> failing[i].number,
             errors |-> failing[i].errors]]

\* the entries scannedCards.forEach pushes, in order
HistoryEntries(deckId, scannedCards) ==
    [i \in 1..Len(scannedCards) |->
        [deckId |-> deckId,
         cardId |-> scannedCards[i].id,
         alphabet |-> scannedCards[i].alphabet,
         number |-> scannedCards[i].number,
         errors |-> scannedCards[i].errors]]

\* mutant of SaveHistoryCall: a batch with an invalid card is not saved
SaveHistoryCallValidOnly(scannedCards) ==
    IF \E i \in 1..Len(scannedCards) : Len(scannedCards[i].errors) > 0
    THEN UNCHANGED <<locked, running, waiters>>
    ELSE IF locked
    THEN /\ waiters' = Append(waiters, scannedCards)
         /\ UNCHANGED <<locked, running>>
    ELSE /\ locked' = TRUE
         /\ running' = Append(running, scannedCards)
         /\ UNCHANGED waiters

\* saveHistory(scannedCards) up to the await: the mutex is taken if free,
\* and the call queues inside acquire() otherwise
SaveHistoryCall(scannedCards) ==
    IF locked
    THEN /\ waiters' = Append(waiters, scannedCards)
         /\ UNCHANGED <<locked, running>>
    ELSE /\ locked' = TRUE
         /\ running' = Append(running, scannedCards)
         /\ UNCHANGED waiters

\* saveHistory after the await: the id, the pushes, and release(), which
\* hands the mutex to the first queued call
SaveHistoryResume ==
    /\ running # <<>>
    /\ uuidClock' = uuidClock + 1
    /\ cardHistory' = cardHistory \o HistoryEntries(Uuid(uuidClock + 1), Head(running))
    /\ IF waiters # <<>>
       THEN /\ running' = <<Head(waiters)>>
            /\ waiters' = Tail(waiters)
            /\ UNCHANGED locked
       ELSE /\ running' = <<>>
            /\ locked' = FALSE
            /\ UNCHANGED waiters
    /\ UNCHANGED <<response, request, posted, accepted, validatedCards>>
    /\ UNCHANGED <<cardVars, shapeVars>>

Respond(status, body) == response' = [status |-> status, body |-> body]

Rejected(msg) ==
    /\ Respond(400, msg)
    /\ validatedCards' = <<>>
    /\ UNCHANGED <<cardHistory, locked, running, waiters, uuidClock, accepted>>

\* app.post('/cards', ...): the content type and JSON.parse outcomes, the
\* array test, the size gate, then preProcess, validateCards, the filter,
\* the call of saveHistory and the response
PostCards(req) ==
    /\ posted < MaxRequests
    /\ posted' = posted + 1
    /\ request' = req
    /\ UNCHANGED <<cardVars, shapeVars>>
    /\ IF req.ctype = "text" /\ ~req.wellFormed
       THEN Rejected([error |-> MsgBadJson])
       ELSE IF req.ctype \notin {"json", "text"}
       THEN Rejected([error |-> MsgUnsupported])
       ELSE IF ~req.isArray
       THEN Rejected([error |-> MsgNotArray])
       ELSE IF WrongSize(req.cards)
       THEN Rejected([validationResult |-> MsgDeckSize])
       ELSE /\ validatedCards' = Serialised(ValidateCards(CleanCards(req.cards)))
            /\ accepted' = accepted + 1
            /\ SaveHistoryCall(validatedCards')
            /\ UNCHANGED <<cardHistory, uuidClock>>
            /\ IF Len(InvalidCards(validatedCards')) > 0
               THEN Respond(400, [validationResult |-> MsgInvalid,
                                  discardCount |-> Len(InvalidCards(validatedCards')),
                                  invalidCards |-> InvalidCards(validatedCards')])
               ELSE Respond(200, [validationResult |-> MsgValid])

GetRequest == [method |-> "GET", ctype |-> "none", wellFormed |-> TRUE,
               isArray |-> FALSE, cards |-> <<>>]

\* app.get('/history', ...)
GetHistory ==
    /\ request' = GetRequest
    /\ Respond(200, [history |-> cardHistory])
    /\ validatedCards' = <<>>
    /\ UNCHANGED <<cardHistory, locked, running, waiters, uuidClock, posted, accepted>>
    /\ UNCHANGED <<cardVars, shapeVars>>

(* Requests *)

PostRequest(ctype, wellFormed, isArray, cards) ==
    [method |-> "POST", ctype |-> ctype, wellFormed |-> wellFormed,
     isArray |-> isArray, cards |-> cards]

Fill(n, c) == [i \in 1..n |-> c]
Put(deck, pos, c) == [deck EXCEPT ![pos] = c]

Baseline == RawString(<<"A", ",", "1">>)
Unparsable == RawString(<<"T", "e", "s", "t">>)
PairingError == RawString(<<"D", ",", "4">>)
ValidDeck == Fill(DeckSize, Baseline)

Decks ==
    {ValidDeck,
     Put(ValidDeck, 3, PairingError),
     Put(ValidDeck, DeckSize, Unparsable),
     Put(Put(ValidDeck, 3, PairingError), DeckSize, Unparsable)}

WrongSizeBatches ==
    {Fill(n, c) : n \in (0..MaxBatchLen) \ {DeckSize}, c \in {Baseline, Unparsable}}

Requests ==
    {PostRequest("json", TRUE, TRUE, b) : b \in Decks \cup WrongSizeBatches}
        \cup {PostRequest("text", TRUE, TRUE, ValidDeck),
              PostRequest("text", FALSE, FALSE, <<>>),
              PostRequest("other", TRUE, FALSE, <<>>),
              PostRequest("json", TRUE, FALSE, <<>>)}

Init ==
    /\ ServerInit
    /\ CardIdle
    /\ ShapeIdle

Next ==
    \/ posted < MaxRequests /\ \E req \in Requests : PostCards(req)
    \/ SaveHistoryResume
    \/ GetHistory

Spec == Init /\ [][Next]_vars

\* the continuation of a saveHistory call that holds the mutex is a queued
\* microtask: it runs
FairSpec == Spec /\ WF_vars(SaveHistoryResume)

----------------------------------------------------------------------------
(* One submission of a deck of mixed shapes (BatchSpec) *)

DeckCards ==
    {Baseline, PairingError, Unparsable,
     RawObject(<<JsStr(<<"D">>), JsInt(3)>>),
     RawArray(<<JsStr(<<"X">>), JsInt(28)>>),
     RawObject(<<JsStr(<<"c">>), JsInt(5)>>),
     RawArray(<<JsFrac(9), JsStr(<<"c">>)>>),
     RawArray(<<JsInt(5)>>),
     RawOther(JsNull)}

MixedDecks ==
    {Put(Put(Put(ValidDeck, 1, a), 10, b), DeckSize, c) : a, b, c \in DeckCards}

\* the first submission the server receives
SubmitDeck ==
    /\ posted = 0
    /\ \E deck \in MixedDecks : PostCards(PostRequest("json", TRUE, TRUE, deck))

BatchNext ==
    \/ SubmitDeck
    \/ SaveHistoryResume
    \/ GetHistory

BatchSpec == Init /\ [][BatchNext]_vars

\* the result of preProcess and validateCards on raw card c alone, given
\* index id
Alone(c, id) == [View(ValidateCards(CleanCards(<<c>>))) EXCEPT !.id = id]

IsDeckRequest(req) ==
    /\ req.method = "POST"
    /\ req.ctype \in {"json", "text"}
    /\ req.isArray
    /\ Len(req.cards) = DeckSize

\* C9: the response is the acceptance signal, with no discardCount and no
\* invalidCards, iff no card has an error; otherwise invalidCards is the
\* sub-sequence of the validated cards with errors, in batch order, and
\* discardCount is its length.
C9_ResponseShape ==
    IsDeckRequest(request) =>
        LET each == [i \in 1..DeckSize |-> Alone(request.cards[i], i - 1)]
            failing == SelectSeq(each, LAMBDA c : c.errors # <<>>)
        IN  IF failing = <<>>
            THEN response = [status |-> 200, body |-> [validationResult |-> MsgValid]]
            ELSE /\ response.status = 400
                 /\ DOMAIN response.body =
                        {"validationResult", "discardCount", "invalidCards"}
                 /\ response.body.validationResult = MsgInvalid
                 /\ response.body.invalidCards = failing
                 /\ response.body.discardCount = Len(failing)

C9_Witness ==
    /\ IsDeckRequest(request)
    /\ response.status = 400
    /\ response.body.discardCount = 2
    /\ response.body.invalidCards[1].id = 0
    /\ response.body.invalidCards[2].id = DeckSize - 1
    /\ response.body.invalidCards[1].errors = <<MsgNumber>>
    /\ response.body.invalidCards[2].errors = <<MsgString>>

\* C10: a deck yields exactly 20 validated cards, with indices 0..19 in
\* submission order, and the card at position i is what the raw card at
\* position i yields on its own.
C10_PerCardIsolation ==
    IsDeckRequest(request) =>
        /\ Len(validatedCards) = DeckSize
        /\ \A i \in 1..DeckSize :
            /\ validatedCards[i].id = i - 1
            /\ validatedCards[i] = Alone(request.cards[i], i - 1)

\* an unparsable first card, a rule violation after it, valid cards between
C10_Witness ==
    /\ IsDeckRequest(request)
    /\ request.cards[1] = RawOther(JsNull)
    /\ validatedCards[1].errors = <<MsgUnknown>>
    /\ validatedCards[2].errors = <<>>
    /\ validatedCards[10].errors = <<MsgLetter, MsgNumber>>
    /\ validatedCards[DeckSize].errors = <<MsgPair>>

----------------------------------------------------------------------------
(* Properties of the server (Spec, FairSpec) *)

IsArrayRequest(req) ==
    /\ req.method = "POST"
    /\ req.ctype \in {"json", "text"}
    /\ req.isArray

\* C1: a POST /cards whose array is not of length 20 is answered by the one
\* batch-level error, with no discardCount and no invalidCards; no card of it
\* is processed and nothing of it reaches saveHistory or the history log.
C1_WrongSizeRejected ==
    [][(posted' = posted + 1 /\ IsArrayRequest(request')
            /\ Len(request'.cards) # DeckSize)
        => /\ response' = [status |-> 400,
                           body |-> [validationResult |-> MsgDeckSize]]
           /\ validatedCards' = <<>>
           /\ UNCHANGED <<cardHistory, locked, running, waiters, uuidClock,
                          accepted>>]_vars

\* 21 unparsable cards, rejected as a batch
C1_Witness ==
    /\ IsArrayRequest(request)
    /\ Len(request.cards) = DeckSize + 1
    /\ request.cards[1] = Unparsable
    /\ response.body = [validationResult |-> MsgDeckSize]
    /\ cardHistory = <<>>

\* the k-th block of DeckSize entries of the log
Block(k) == SubSeq(cardHistory, (k - 1) * DeckSize + 1, k * DeckSize)
Blocks == Len(cardHistory) \div DeckSize

\* C7: the history log is a sequence of whole batches: the entries of one
\* batch are contiguous, in card order 0..19, under one deckId no other
\* batch has, and no entry of a batch that passed the size gate is lost.
C7_BatchesAtomic ==
    /\ Len(cardHistory) = Blocks * DeckSize
    /\ \A k \in 1..Blocks : \A i \in 1..DeckSize :
        /\ Block(k)[i].cardId = i - 1
        /\ Block(k)[i].deckId = Block(k)[1].deckId
    /\ \A k, l \in 1..Blocks : k # l => Block(k)[1].deckId # Block(l)[1].deckId
    /\ \A i, j \in 1..Len(cardHistory) :
        cardHistory[i].deckId = cardHistory[j].deckId
            => (i - 1) \div DeckSize = (j - 1) \div DeckSize
    /\ Blocks + Len(running) + Len(waiters) = accepted
    /\ Len(running) <= 1
    /\ (waiters # <<>> => running # <<>>)
    /\ (locked <=> running # <<>>)

\* one batch recorded, with its unparsable last card, and a second holding
\* the mutex
C7_Witness ==
    /\ Blocks = 1
    /\ Len(running) = 1
    /\ accepted = 2
    /\ cardHistory[DeckSize].errors = <<MsgString>>

IsPrefix(a, b) == Len(a) <= Len(b) /\ SubSeq(b, 1, Len(a)) = a

\* C8: the log only grows at its end, an entry once written never changes,
\* and every batch that passed the size gate, valid or not, is eventually in
\* the log with its 20 entries.
C8_AppendOnlyAndRecorded ==
    /\ [][IsPrefix(cardHistory, cardHistory')]_vars
    /\ [](Len(cardHistory) <= accepted * DeckSize)
    /\ \A n \in 1..MaxRequests :
        (accepted >= n) ~> (Len(cardHistory) >= n * DeckSize)
    /\ <>[](Len(cardHistory) = accepted * DeckSize)

\* two batches recorded, the first with an invalid card, the second valid
C8_Witness ==
    /\ Blocks = 2
    /\ accepted = 2
    /\ cardHistory[3].errors = <<MsgPair>>
    /\ \A i \in 1..DeckSize : Block(2)[i].errors = <<>>
    /\ request = GetRequest
    /\ response.body.history = cardHistory

====
